---- MODULE Spec2Model ----
(***************************************************************************)
(* Lead Intake Service (server.js): POST /api/submit, GET /api/leads,      *)
(* DELETE /api/leads/:id and GET / over one MongoDB collection of leads    *)
(* (mongoose model User) and the SendGrid mail client.                     *)
(*                                                                         *)
(* A string is a sequence of one-character strings; the JavaScript value   *)
(* undefined (a field absent from the JSON body) is the value undefined    *)
(* below.  Every await of a handler is a point where other requests run,   *)
(* so a handler is cut at its awaits.  A request reads nothing shared      *)
(* between its arrival and the store's answer to its first query, so its   *)
(* arrival, its validation and that query are one step.                    *)
(***************************************************************************)
EXTENDS Integers, Sequences, FiniteSets, TLC

\* ---------------------------------------------------------------- bounds
MaxInflight == 2   \* submissions in flight at once
MaxLeads    == 2   \* documents constructed (ObjectIds handed out) in a run
MaxClock    == 1   \* ticks of Date.now() in a run

\* ---------------------------------------------------------------- strings
undefined == <<"undefined">>
WS        == <<" ">>

RECURSIVE TrimStart(_)
TrimStart(s) ==
  IF s # <<>> /\ Head(s) = " " THEN TrimStart(Tail(s)) ELSE s

RECURSIVE TrimEnd(_)
TrimEnd(s) ==
  IF s # <<>> /\ s[Len(s)] = " " THEN TrimEnd(SubSeq(s, 1, Len(s) - 1)) ELSE s

\* String.prototype.trim, the schema's  trim: true  setter
Trim(s) == TrimEnd(TrimStart(s))

LowerChar(c) ==
  CASE c = "A" -> "a"
    [] c = "B" -> "b"
    [] OTHER   -> c

\* String.prototype.toLowerCase, the schema's  lowercase: true  setter
ToLowerCase(s) == [i \in DOMAIN s |-> LowerChar(s[i])]

\* setters of the schema paths; mongoose leaves undefined alone
CastTrimmed(v) == IF v = undefined THEN undefined ELSE Trim(v)
CastEmail(v)   == IF v = undefined THEN undefined ELSE ToLowerCase(Trim(v))

\* ---------------------------------------------------------------- inputs
Body(fn, ln, e, p, m, d) ==
  [firstName |-> fn, lastName |-> ln, email |-> e, phone |-> p,
   message |-> m, demoInterest |-> d]

RequiredFields == {"firstName", "lastName", "email", "phone", "message"}

BaseBody == Body(<<"n">>, <<"n">>, <<"a">>, <<"1">>, <<"m">>, undefined)

\* request bodies: four complete ones (the plain base body; its email in
\* upper case with another, padded phone; that phone with another email,
\* padded fields and a demoInterest; that email with the base phone), and
\* the base body with one required field missing, empty or blank
Bodies ==
       { BaseBody,
         [BaseBody EXCEPT !.email = <<"A">>, !.phone = <<"2", " ">>],
         Body(<<" ", "n">>, <<"n">>, <<"b", " ">>, <<"2">>, <<"m">>, <<"d">>),
         [BaseBody EXCEPT !.email = <<"b">>] }
  \cup { [BaseBody EXCEPT ![f] = undefined] : f \in RequiredFields }
  \cup { [BaseBody EXCEPT ![f] = <<>>] : f \in {"email"} }
  \cup { [BaseBody EXCEPT ![f] = WS] : f \in {"firstName", "email", "phone"} }

NoBody == Body(undefined, undefined, undefined, undefined, undefined, undefined)

\* process.env: all three mail settings, or all but one of them
Envs ==
  { e \in [SENDGRID_API_KEY : BOOLEAN, NOTIFICATION_EMAIL : BOOLEAN,
           SENDER_EMAIL : BOOLEAN] :
      Cardinality({k \in DOMAIN e : ~e[k]}) <= 1 }

\* ---------------------------------------------------------------- state
VARIABLES
  store,      \* the users collection, in natural (insertion) order
  nextId,     \* the next ObjectId  new User()  hands out
  now,        \* Date.now()
  env,        \* process.env: which of the three mail settings are set
  inflight,   \* the submissions suspended at an await: for each its pc
              \* ("save" or "send"), req.body, the document built at line 94,
              \* the _id logged at line 104 (0 before) and its sgMail.send calls
  reply,      \* the response a step has written and the request it
              \* answers, until it is flushed; op is "none" otherwise
  overlapped  \* history: some submission passed its duplicate lookup while
              \* another was suspended between its lookup and its save

vars == <<store, nextId, now, env, inflight, reply, overlapped>>

AllFieldsMsg == "All fields are required."
EmailMsg     == "This email is already registered."
PhoneMsg     == "This phone number is already registered."
SubmittedMsg == "Submitted successfully!"
SubmitErrMsg == "Something went wrong. Try again later."

\* error is what the handler's catch block logged: "none", the
\* "ValidationError" of save(), or a "StoreError" (a rejected store call)
NoReply == [op |-> "none", status |-> 0, message |-> "", req |-> NoBody,
            id |-> 0, leads |-> <<>>, savedId |-> 0, sendCalls |-> 0,
            sendResult |-> "none", error |-> "none"]

\* the response to a submission: status and message, with the request body,
\* the _id it saved (0 if none), its sgMail.send calls and how the send ended
SubmitReply(st, m, b, sid, calls, result) ==
  [NoReply EXCEPT !.op = "submit", !.status = st, !.message = m, !.req = b,
                  !.savedId = sid, !.sendCalls = calls, !.sendResult = result]

\* lines 153-155: a rejected await of the submit handler
SubmitError(b, err) ==
  [SubmitReply(500, SubmitErrMsg, b, 0, 0, "none") EXCEPT !.error = err]

Ids(s) == { s[i]._id : i \in DOMAIN s }

Init ==
  /\ store = <<>>
  /\ nextId = 1
  /\ now = 0
  /\ env \in Envs
  /\ inflight = {}
  /\ reply = NoReply
  /\ overlapped = FALSE

\* ---------------------------------------------------------------- submit
\* line 75: !firstName || !lastName || !email || !phone || !message
Truthy(v) == v # undefined /\ v # <<>>
AllPresent(b) == \A f \in RequiredFields : Truthy(b[f])

\* a filter built from the values as sent, with no query casting
FilterRaw(b) == [email |-> b.email, phone |-> b.phone]

\* the filter of line 81 after mongoose's query casting: mongoose 5 and
\* later (the connect options of lines 48-49 are those of 5.7 and later) run
\* the schema setters (trim, lowercase) on the values of a filter
Filter(b) == [email |-> CastEmail(b.email), phone |-> CastTrimmed(b.phone)]

\* a filter that forgets the phone clause
MatchesEmailOnly(doc, f) == doc.email = f.email

\* { $or: [{ email }, { phone }] }
Matches(doc, f) == doc.email = f.email \/ doc.phone = f.phone

\* findOne: the first matching document in natural order, 0 for null
FindOne(s, f) ==
  LET hits == { i \in DOMAIN s : Matches(s[i], f) }
  IN  IF hits = {} THEN 0 ELSE CHOOSE i \in hits : \A j \in hits : i <= j

\* the test of line 87 inverted
DuplicateMsgInverted(existing, b) ==
  IF existing.email # b.email THEN EmailMsg ELSE PhoneMsg

\* lines 86-89: the message is chosen by comparing with the email as sent
DuplicateMsg(existing, b) ==
  IF existing.email = b.email THEN EmailMsg ELSE PhoneMsg

\* lines 94-101: new User({...}) applies the setters and the defaults
NewUser(b, id, t) ==
  [_id |-> id,
   firstName |-> CastTrimmed(b.firstName),
   lastName |-> CastTrimmed(b.lastName),
   email |-> CastEmail(b.email),
   phone |-> CastTrimmed(b.phone),
   message |-> CastTrimmed(b.message),
   demoInterest |-> CastTrimmed(b.demoInterest),
   createdAt |-> t]

\* required: true  on a String path rejects undefined, null and ""
Validates(doc) == \A f \in RequiredFields : doc[f] # undefined /\ doc[f] # <<>>

\* a test of the API key alone
ConfiguredKeyOnly(e) == e.SENDGRID_API_KEY

\* lines 107-111
Configured(e) == e.SENDGRID_API_KEY /\ e.NOTIFICATION_EMAIL /\ e.SENDER_EMAIL

\* a save that replaces a stored lead with the same email
InsertOrReplace(s, doc) ==
  IF \E i \in DOMAIN s : s[i].email = doc.email
    THEN [i \in DOMAIN s |-> IF s[i].email = doc.email THEN doc ELSE s[i]]
    ELSE Append(s, doc)

\* line 103: save() inserts the document
Insert(s, doc) == Append(s, doc)

\* Date.now() as read at line 65 when a document is built: the time of the
\* previous reading, or later
Clock(prev) == { t \in {prev, prev + 1} : t <= MaxClock }

\* lines 71-103: a request arrives and is validated; findOne rejects
\* (caught at line 153) or resolves; a duplicate is answered 400, otherwise
\* the document is built and save() is called
Submit(b) ==
  /\ reply = NoReply
  /\ IF ~AllPresent(b)
       THEN /\ reply' = SubmitReply(400, AllFieldsMsg, b, 0, 0, "none")
            /\ UNCHANGED <<inflight, nextId, now, overlapped>>
       ELSE \/ /\ reply' = SubmitError(b, "StoreError")
               /\ UNCHANGED <<inflight, nextId, now, overlapped>>
            \/ LET i == FindOne(store, Filter(b)) IN
               IF i # 0
                 THEN /\ reply' = SubmitReply(400, DuplicateMsg(store[i], b),
                                              b, 0, 0, "none")
                      /\ UNCHANGED <<inflight, nextId, now, overlapped>>
                 ELSE /\ nextId <= MaxLeads
                      /\ Cardinality(inflight) < MaxInflight
                      /\ \E t \in Clock(now) :
                           /\ inflight' = inflight \cup
                                {[pc |-> "save", body |-> b,
                                  newUser |-> NewUser(b, nextId, t),
                                  savedId |-> 0, sendCalls |-> 0]}
                           /\ now' = t
                      /\ nextId' = nextId + 1
                      /\ reply' = NoReply
                      /\ overlapped' =
                           (overlapped \/ \E q \in inflight : q.pc = "save")
  /\ UNCHANGED <<store, env>>

\* lines 103-152: save() resolves.  A validation failure or a store failure
\* rejects it (caught at line 153); otherwise the document is inserted, and
\* the notification is sent, or skipped and the request answered.  The code
\* that runs after the insert reads process.env alone, so it is one step
\* with the insert.
SaveResolve(q) ==
  /\ reply = NoReply
  /\ q.pc = "save"
  /\ IF ~Validates(q.newUser)
       THEN /\ reply' = SubmitError(q.body, "ValidationError")
            /\ inflight' = inflight \ {q}
            /\ store' = store
       ELSE \/ /\ reply' = SubmitError(q.body, "StoreError")
               /\ inflight' = inflight \ {q}
               /\ store' = store
            \/ /\ store' = Insert(store, q.newUser)
               /\ IF Configured(env)
                    THEN /\ inflight' = (inflight \ {q}) \cup
                              {[q EXCEPT !.pc = "send",
                                         !.savedId = q.newUser._id,
                                         !.sendCalls = @ + 1]}
                         /\ reply' = NoReply
                    ELSE /\ reply' = SubmitReply(201, SubmittedMsg, q.body,
                                                 q.newUser._id, 0, "none")
                         /\ inflight' = inflight \ {q}
  /\ UNCHANGED <<nextId, now, env, overlapped>>

\* a send failure that reaches the outer catch
SendStatusFailed(ok) == IF ok THEN 201 ELSE 500

\* line 152 after line 146 (ok) or line 148
SendStatus(ok) == 201

\* lines 144-152: sgMail.send resolves or rejects
SendResolve(q) ==
  /\ reply = NoReply
  /\ q.pc = "send"
  /\ \E ok \in BOOLEAN :
       reply' = SubmitReply(SendStatus(ok), SubmittedMsg, q.body, q.savedId,
                            q.sendCalls, IF ok THEN "sent" ELSE "error")
  /\ inflight' = inflight \ {q}
  /\ UNCHANGED <<store, nextId, now, env, overlapped>>

\* ---------------------------------------------------------------- list
\* the same insertion for an ascending sort
RECURSIVE InsertAsc(_, _)
InsertAsc(doc, s) ==
  IF s = <<>> THEN <<doc>>
  ELSE IF Head(s).createdAt <= doc.createdAt
         THEN <<Head(s)>> \o InsertAsc(doc, Tail(s))
         ELSE <<doc>> \o s

\* insert doc into a sequence sorted by createdAt descending, after the
\* documents with the same createdAt
RECURSIVE InsertDesc(_, _)
InsertDesc(doc, s) ==
  IF s = <<>> THEN <<doc>>
  ELSE IF Head(s).createdAt >= doc.createdAt
         THEN <<Head(s)>> \o InsertDesc(doc, Tail(s))
         ELSE <<doc>> \o s

\* .sort({ createdAt: -1 })
RECURSIVE SortDesc(_)
SortDesc(s) ==
  IF s = <<>> THEN <<>>
  ELSE InsertDesc(s[Len(s)], SortDesc(SubSeq(s, 1, Len(s) - 1)))

\* lines 160-168
ListLeads ==
  /\ reply = NoReply
  /\ \/ reply' = [NoReply EXCEPT !.op = "list", !.status = 200,
                                 !.leads = SortDesc(store)]
     \/ reply' = [NoReply EXCEPT !.op = "list", !.status = 500,
                                 !.message = "Error fetching leads.",
                                 !.error = "StoreError"]
  /\ UNCHANGED <<store, nextId, now, env, inflight, overlapped>>

\* ---------------------------------------------------------------- delete
\* a path parameter that is no ObjectId; the ObjectIds are 1, 2, ...
BadId == 0
IdInputs == {BadId} \cup (1..MaxLeads)

\* mongoose.Types.ObjectId.isValid
IsValid(id) == id # BadId

\* a delete that ignores its filter
WithoutAll(s, id) == <<>>

\* the collection without the document whose _id is id
Without(s, id) == SelectSeq(s, LAMBDA d : d._id # id)

DeleteReply(st, m, id) ==
  [NoReply EXCEPT !.op = "delete", !.status = st, !.message = m, !.id = id]

\* lines 171-189
DeleteLead(id) ==
  /\ reply = NoReply
  /\ IF ~IsValid(id)
       THEN /\ reply' = DeleteReply(400, "Invalid ID format.", id)
            /\ store' = store
       ELSE \/ /\ reply' = [DeleteReply(500, "Failed to delete lead.", id)
                              EXCEPT !.error = "StoreError"]
               /\ store' = store
            \/ IF id \in Ids(store)
                 THEN /\ store' = Without(store, id)
                      /\ reply' = DeleteReply(200, "Lead deleted successfully.", id)
                 ELSE /\ store' = store
                      /\ reply' = DeleteReply(404, "Lead not found.", id)
  /\ UNCHANGED <<nextId, now, env, inflight, overlapped>>

\* lines 192-194
Root ==
  /\ reply = NoReply
  /\ reply' = [NoReply EXCEPT !.op = "root", !.status = 200,
                              !.message = "Connecting Dots ERP Backend is live."]
  /\ UNCHANGED <<store, nextId, now, env, inflight, overlapped>>

\* the response written by res.json / res.send goes out before the event
\* loop runs the next callback
Flush ==
  /\ reply # NoReply
  /\ reply' = NoReply
  /\ UNCHANGED <<store, nextId, now, env, inflight, overlapped>>

\* ---------------------------------------------------------------- system
Next ==
  \/ \E b \in Bodies : Submit(b)
  \/ \E q \in inflight : SaveResolve(q)
  \/ \E q \in inflight : SendResolve(q)
  \/ ListLeads
  \/ \E id \in IdInputs : DeleteLead(id)
  \/ Root
  \/ Flush

Spec == Init /\ [][Next]_vars


\* ---------------------------------------------------------------- claims
Leads(s) == { s[i] : i \in DOMAIN s }

Unique(s) ==
  \A i, j \in DOMAIN s :
    i # j => (s[i].email # s[j].email /\ s[i].phone # s[j].phone)

\* the step wrote a response
Answered == reply'.op # "none"

\* the step is a submission answered at its validation or at its lookup
\* (the later answers of a submission take it out of inflight)
AnsweredAtLookup == reply'.op = "submit" /\ inflight' = inflight

\* the submissions whose lookup found nothing in this step
PassedLookup == inflight' \ inflight

\* the submissions whose save or send ended in this step
Resumed == inflight \ inflight'

\* the store holds a lead with the email / the phone of body b, as stored
EmailStored(b) == \E l \in Leads(store) : l.email = ToLowerCase(Trim(b.email))
PhoneStored(b) == \E l \in Leads(store) : l.phone = Trim(b.phone)

\* t is s without its lead id, the other leads untouched
RemovedExactly(s, t, id) ==
  \E k \in DOMAIN s :
    /\ s[k]._id = id
    /\ t = SubSeq(s, 1, k - 1) \o SubSeq(s, k + 1, Len(s))
    /\ id \notin Ids(t)

EnvAllSet == env.SENDGRID_API_KEY /\ env.NOTIFICATION_EMAIL /\ env.SENDER_EMAIL

\* C1 as stated: in every reachable state no two stored leads share an
\* email and no two share a phone, whatever the interleaving of requests.
C1_UniqueAlways == Unique(store)

\* C1 amended: no two stored leads share an email or a phone in every
\* reachable state in which no submission has passed its duplicate lookup
\* while another was suspended between its lookup and its save.
C1_UniqueWithoutOverlap == ~overlapped => Unique(store)

C1_Witness == ~overlapped /\ Len(store) = 2 /\ Unique(store)

\* C2 as stated: a complete submission whose email is the email of a stored
\* lead is answered 400 with the email-conflict message, whatever its phone
\* (read here for the answers of a lookup, with no submissions overlapping).
C2_EmailMessageWins ==
  (/\ ~overlapped
   /\ reply.op = "submit"
   /\ AllPresent(reply.req)
   /\ reply.error = "none"
   /\ reply.savedId = 0
   /\ \E l \in Leads(store) : l.email = reply.req.email)
  => (reply.status = 400 /\ reply.message = EmailMsg)

\* C3: a complete submission whose phone is stored and whose email is not,
\* and whose lookup the store answers, is answered 400 with the
\* phone-conflict message; it creates no record, sends no notification and
\* leaves the store unchanged.
C3_PhoneConflict ==
  [][/\ (/\ AnsweredAtLookup
         /\ AllPresent(reply'.req)
         /\ PhoneStored(reply'.req)
         /\ ~EmailStored(reply'.req)
         /\ reply'.error # "StoreError")
        => (/\ reply'.status = 400
            /\ reply'.message = PhoneMsg
            /\ reply'.savedId = 0
            /\ reply'.sendCalls = 0
            /\ store' = store
            /\ nextId' = nextId)
     /\ \A q \in PassedLookup :
          q.pc = "save" => ~(PhoneStored(q.body) /\ ~EmailStored(q.body))]_vars

C3_Witness ==
  /\ reply.op = "submit"
  /\ reply.status = 400
  /\ reply.message = PhoneMsg
  /\ PhoneStored(reply.req)
  /\ ~EmailStored(reply.req)

\* a required field is missing, or empty once trimmed
Blank(b) ==
  \E f \in RequiredFields : b[f] = undefined \/ Trim(b[f]) = <<>>

\* C4 as stated: a submission with a required field missing or empty after
\* trimming is answered 400, not 500 and not 201, and persists no record.
C4_BlankIsRejected400 ==
  (reply.op = "submit" /\ Blank(reply.req) /\ reply.error # "StoreError")
  => (reply.status = 400 /\ reply.savedId = 0)

\* C5: once the save of a submission has succeeded the response is 201 and
\* the lead stays stored, whether the notification is skipped, sent or
\* fails: the step that ends the send answers 201 and leaves the store
\* alone, and a save that is not followed by a send answers 201 at once.
C5_NotificationIndependent ==
  /\ []((reply.op = "submit" /\ reply.savedId # 0) => reply.status = 201)
  /\ [][\A q \in Resumed :
          /\ q.pc = "send" =>
               (/\ reply'.status = 201
                /\ reply'.savedId = q.newUser._id
                /\ store' = store)
          /\ (q.pc = "save" /\ store' # store) =>
               (/\ q.newUser \in Leads(store')
                /\ \/ (reply'.status = 201 /\ reply'.savedId = q.newUser._id)
                   \/ (EnvAllSet /\ \E p \in inflight' :
                         p.pc = "send" /\ p.newUser = q.newUser))]_vars

C5_Witness ==
  /\ reply.op = "submit"
  /\ reply.status = 201
  /\ reply.sendResult = "error"
  /\ reply.savedId \in Ids(store)

PendingIds == { q.newUser._id : q \in { p \in inflight : p.pc = "save" } }

\* C6: a delete the store answers, of the identifier of a stored lead, is
\* answered 200 and removes exactly that lead; of a well-formed identifier
\* that is not stored, it is answered 404 and changes nothing; and an
\* identifier that has left the store never returns to it, so that the lead
\* is in no later list and a second delete of it is answered 404.
C6_DeleteExactlyOne ==
  /\ [][(/\ Answered
          /\ reply'.op = "delete"
          /\ reply'.id # BadId
          /\ reply'.error # "StoreError") =>
            IF reply'.id \in Ids(store)
              THEN /\ reply'.status = 200
                   /\ RemovedExactly(store, store', reply'.id)
              ELSE /\ reply'.status = 404
                   /\ store' = store]_vars
  /\ [][\A id \in 1..MaxLeads :
          (id < nextId /\ id \notin Ids(store) /\ id \notin PendingIds)
          => id \notin Ids(store')]_vars

C6_Witness ==
  /\ reply.op = "delete"
  /\ reply.status = 200
  /\ store # <<>>
  /\ reply.id \notin Ids(store)

\* the store holds the record of body b: its fields as new User stores them
Recorded(b) ==
  \E l \in Leads(store) : l = NewUser(b, l._id, l.createdAt)

\* C7: a complete submission sent again once its lead is stored is rejected
\* as a conflict (400) when the store answers its lookup, and adds nothing;
\* without overlapping submissions the store holds one record of it.  This
\* covers emails in upper case and padded fields.
C7_Idempotent ==
  /\ [][/\ (/\ AnsweredAtLookup
             /\ AllPresent(reply'.req)
             /\ Recorded(reply'.req)
             /\ reply'.error # "StoreError")
            => (/\ reply'.status = 400
                /\ reply'.message \in {EmailMsg, PhoneMsg}
                /\ store' = store)
        /\ \A q \in PassedLookup : q.pc = "save" => ~Recorded(q.body)]_vars
  /\ []((~overlapped /\ reply.op = "submit" /\ AllPresent(reply.req)) =>
          Cardinality({ l \in Leads(store) :
                          l = NewUser(reply.req, l._id, l.createdAt) }) <= 1)

C7_Witness ==
  /\ reply.op = "submit"
  /\ reply.status = 400
  /\ reply.req.email = <<"A">>
  /\ reply.req.phone = <<"2", " ">>
  /\ Recorded(reply.req)
  /\ Len(store) = 1

Descending(s) ==
  \A i, j \in DOMAIN s : i < j => s[i].createdAt >= s[j].createdAt

\* C8: a list the store answers returns exactly the stored leads, a lead
\* created later before a lead created earlier, and a list leaves the
\* store unchanged.
C8_ListNewestFirst ==
  /\ []((reply.op = "list" /\ reply.status = 200) =>
          (/\ Len(reply.leads) = Len(store)
           /\ Leads(reply.leads) = Leads(store)
           /\ Descending(reply.leads)))
  /\ [][ListLeads =>
          (/\ store' = store
           /\ reply'.status = 200 \/ reply'.error = "StoreError")]_vars

C8_Witness ==
  /\ reply.op = "list"
  /\ reply.status = 200
  /\ Len(reply.leads) = 2
  /\ reply.leads[1].createdAt > reply.leads[2].createdAt
  /\ reply.leads # store

\* C9: within a submission the steps are validation, lookup, save, send,
\* response: a request past its lookup has all its fields; a send is called
\* at most once and only by a request whose lead has been inserted; a
\* request answered 400 or 500 has saved and sent nothing; 201 is written
\* after the save, and after the send has ended when the mail settings are
\* all there.
C9_StepOrder ==
  /\ [](\A q \in inflight :
          /\ \A f \in RequiredFields : q.body[f] \notin {undefined, <<>>}
          /\ q.sendCalls <= 1
          /\ q.pc = "save" => (q.sendCalls = 0 /\ q.savedId = 0)
          /\ q.pc = "send" =>
               (q.sendCalls = 1 /\ q.savedId = q.newUser._id /\ EnvAllSet))
  /\ [](reply.op = "submit" =>
          /\ reply.status \in {400, 500} =>
               (reply.sendCalls = 0 /\ reply.savedId = 0
                  /\ reply.sendResult = "none")
          /\ reply.status = 201 =>
               /\ reply.savedId # 0
               /\ IF EnvAllSet
                    THEN reply.sendCalls = 1
                           /\ reply.sendResult \in {"sent", "error"}
                    ELSE reply.sendCalls = 0 /\ reply.sendResult = "none")
  /\ [][\A p \in inflight' :
          (p.pc = "send" /\ p \notin inflight) =>
            (p.newUser \in Leads(store') /\ p.newUser \notin Leads(store))]_vars

C9_Witness ==
  /\ reply.op = "submit"
  /\ reply.status = 201
  /\ reply.sendCalls = 1
  /\ reply.sendResult = "sent"

\* the step appended the document of one request that was at its save, and
\* that request is answered 201 or goes on to its send
Grew ==
  /\ Len(store') = Len(store) + 1
  /\ SubSeq(store', 1, Len(store)) = store
  /\ \E q \in inflight :
       /\ q.pc = "save"
       /\ store'[Len(store')] = q.newUser
       /\ q \notin inflight'
       /\ \/ (reply'.op = "submit" /\ reply'.status = 201
                /\ reply'.savedId = q.newUser._id)
          \/ \E p \in inflight' : p.pc = "send" /\ p.savedId = q.newUser._id

\* the step is a delete answered 200 that removed the lead it names
Shrank ==
  /\ reply'.op = "delete"
  /\ reply'.status = 200
  /\ RemovedExactly(store, store', reply'.id)

\* C10: a stored lead never changes while stored; the store grows only by
\* the save of a submission that is answered 201, by exactly that lead, and
\* shrinks only by a delete answered 200, by exactly the lead named; a
\* list, GET / and every request answered 400, 404 or 500 leave it alone.
C10_LifecycleFrame ==
  /\ [][/\ store' = store \/ Grew \/ Shrank
        /\ \A l \in Leads(store), m \in Leads(store') : l._id = m._id => l = m
        /\ (Answered /\ reply'.op \in {"list", "root"}) => store' = store
        /\ (Answered /\ reply'.status \in {400, 404, 500}) => store' = store
        /\ \A q \in Resumed : q.pc = "send" => reply'.status = 201]_vars

C10_Witness ==
  /\ reply.op = "delete"
  /\ reply.status = 200
  /\ Len(store) = 1
  /\ nextId = 3

====
